---- MODULE Spec2Model ----
(***************************************************************************)
(* SafeFile: the save-file integrity layer of was-that-infinite.           *)
(*                                                                         *)
(* JavaScript values are tagged records [t |-> <type>, v |-> <payload>].   *)
(* An object is the sequence of its <<key, value>> pairs in insertion      *)
(* order, an array the sequence of its elements.  Time is counted in       *)
(* seconds (the source counts milliseconds; every comparison of the source *)
(* is between multiples of a second in this model).                        *)
(* SHA-256, HMAC-SHA-256 and base64 are modelled as injective functions of *)
(* their inputs: a digest is the record of what was hashed.                *)
(***************************************************************************)
EXTENDS Integers, Sequences, FiniteSets, TLC

\* ------------------------------------------------------------------ values

Undef == [t |-> "undefined"]
Null == [t |-> "null"]
Num(n) == [t |-> "number", v |-> n]
Str(s) == [t |-> "string", v |-> s]
Bool(b) == [t |-> "boolean", v |-> b]
Arr(elems) == [t |-> "array", v |-> elems]
Obj(pairs) == [t |-> "object", v |-> pairs]

\* typeof x
TypeOf(x) ==
  CASE x.t \in {"object", "array", "null"} -> "object"
    [] x.t \in {"string", "mac"} -> "string"
    [] OTHER -> x.t

\* Array.isArray(x)
IsArray(x) == x.t = "array"

\* ToBoolean(x): what `if (x)`, `!x` and `x || y` test
Truthy(x) ==
  CASE x.t \in {"undefined", "null"} -> FALSE
    [] x.t = "number" -> x.v # 0
    [] x.t = "string" -> x.v # ""
    [] x.t = "boolean" -> x.v
    [] OTHER -> TRUE

\* x || d
OrElse(x, d) == IF Truthy(x) THEN x ELSE d

Range(s) == {s[i] : i \in 1..Len(s)}

\* the own enumerable string keys of x, in insertion order (array: indices)
IndexKey == <<"0", "1", "2", "3">>
ObjectKeys(x) ==
  CASE x.t = "object" -> [i \in 1..Len(x.v) |-> x.v[i][1]]
    [] x.t = "array" -> [i \in 1..Len(x.v) |-> IndexKey[i]]
    [] OTHER -> <<>>

HasKey(x, k) == x.t = "object" /\ \E i \in 1..Len(x.v) : x.v[i][1] = k

\* x.k for a non-nullish x: undefined when x has no such own property
Get(x, k) ==
  IF HasKey(x, k)
    THEN x.v[CHOOSE i \in 1..Len(x.v) : x.v[i][1] = k][2]
    ELSE Undef

\* x.length
Length(x) == IF x.t = "array" THEN Len(x.v) ELSE 0

\* { ...x, k: val }: val replaces the value of k in place, or is appended
SetKey(x, k, val) ==
  IF HasKey(x, k)
    THEN Obj([i \in 1..Len(x.v) |-> IF x.v[i][1] = k THEN <<k, val>> ELSE x.v[i]])
    ELSE Obj(Append(x.v, <<k, val>>))

\* the pairs of x whose key is not in ks, in the order of x
WithoutKeys(x, ks) == Obj(SelectSeq(x.v, LAMBDA p : p[1] \notin ks))

\* deep equality of two values, blind to the insertion order of object keys
RECURSIVE StructEq(_, _)
StructEq(x, y) ==
  /\ x.t = y.t
  /\ CASE x.t = "object" ->
            /\ Range(ObjectKeys(x)) = Range(ObjectKeys(y))
            /\ \A k \in Range(ObjectKeys(x)) : StructEq(Get(x, k), Get(y, k))
       [] x.t = "array" ->
            /\ Len(x.v) = Len(y.v)
            /\ \A i \in 1..Len(x.v) : StructEq(x.v[i], y.v[i])
       [] OTHER -> x = y

\* ----------------------------------------------------------------- strings

\* the UTF-16 code units of the strings the model sorts or joins
CodeUnits(s) ==
  CASE s = "" -> <<>>
    [] s = "a" -> <<97>>
    [] s = "b" -> <<98>>
    [] s = "a,b" -> <<97, 44, 98>>
    [] s = "0" -> <<48>>
    [] s = "1" -> <<49>>
    [] s = "2" -> <<50>>
    [] s = "3" -> <<51>>
    [] s = "known" -> <<107, 110, 111, 119, 110>>
    [] s = "history" -> <<104, 105, 115, 116, 111, 114, 121>>
    [] s = "missions" -> <<109, 105, 115, 115, 105, 111, 110, 115>>
    [] s = "unlocked" -> <<117, 110, 108, 111, 99, 107, 101, 100>>
    [] s = "version" -> <<118, 101, 114, 115, 105, 111, 110>>
    [] s = "_sf_integrity" ->
         <<95, 115, 102, 95, 105, 110, 116, 101, 103, 114, 105, 116, 121>>
    [] s = "_sf_timestamp" ->
         <<95, 115, 102, 95, 116, 105, 109, 101, 115, 116, 97, 109, 112>>
    [] s = "_sf_version" -> <<95, 115, 102, 95, 118, 101, 114, 115, 105, 111, 110>>

\* a < b in the order of Array.prototype.sort() without a comparator:
\* by code units, a proper prefix first
RECURSIVE UnitsLess(_, _)
UnitsLess(a, b) ==
  IF b = <<>> THEN FALSE
  ELSE IF a = <<>> THEN TRUE
  ELSE IF a[1] # b[1] THEN a[1] < b[1]
  ELSE UnitsLess(Tail(a), Tail(b))

StrLess(a, b) == UnitsLess(CodeUnits(a), CodeUnits(b))

\* s with x inserted before the first element greater than x (s sorted)
RECURSIVE InsertSorted(_, _)
InsertSorted(x, s) ==
  IF s = <<>> THEN <<x>>
  ELSE IF StrLess(x, s[1]) THEN <<x>> \o s
  ELSE <<s[1]>> \o InsertSorted(x, Tail(s))

\* names left in the order they were met
SortStrings_Unsorted(s) == s

\* names.sort()
RECURSIVE SortStrings(_)
SortStrings(s) ==
  IF s = <<>> THEN <<>> ELSE InsertSorted(s[1], SortStrings(Tail(s)))

\* names.join(','), as code units
RECURSIVE Join(_)
Join(s) ==
  IF s = <<>> THEN <<>>
  ELSE IF Len(s) = 1 THEN CodeUnits(s[1])
  ELSE CodeUnits(s[1]) \o <<44>> \o Join(Tail(s))

\* -------------------------------------------------------------- SafeFile

INTEGRITY_KEY == "_sf_integrity"
TIMESTAMP_KEY == "_sf_timestamp"
VERSION_KEY == "_sf_version"
ReservedKeys == {INTEGRITY_KEY, TIMESTAMP_KEY, VERSION_KEY}

\* new Date('2025-01-01').getTime(), in seconds
ReleaseTime == 1735689600
\* 24 * 60 * 60 * 1000 ms, in seconds
DayInMs == 86400

Thrown(message) == [thrown |-> TRUE, message |-> message]
Returned(value) == [thrown |-> FALSE, value |-> value]

\* (saveData.missions || []).filter(m => m.done).map(m => m.name):
\* reading .done of a null or undefined entry throws a TypeError
MissionEntries(saveData) == OrElse(Get(saveData, "missions"), Arr(<<>>)).v
DoneMissionNames(saveData) ==
  LET done == SelectSeq(MissionEntries(saveData), LAMBDA m : Truthy(Get(m, "done")))
  IN [i \in 1..Len(done) |-> Get(done[i], "name").v]

UnlockedKeys(saveData) == ObjectKeys(OrElse(Get(saveData, "unlocked"), Obj(<<>>)))

\* the `features` object of generateDynamicKey
Features(saveData) ==
  [unlocked |-> SortStrings(UnlockedKeys(saveData)),
   missionProgress |-> Join(SortStrings(DoneMissionNames(saveData))),
   stats |-> [unlockedCount |-> Len(UnlockedKeys(saveData)),
              version |-> OrElse(Get(saveData, "version"), Num(1))]]

\* generateDynamicKey up to its await: seed = JSON.stringify(features)
\* (JSON text is an injective rendering of the features object)
DynamicKeySeed(saveData) ==
  IF \E i \in 1..Len(MissionEntries(saveData)) :
       MissionEntries(saveData)[i].t \in {"null", "undefined"}
    THEN Thrown("TypeError: cannot read properties of null (reading 'done')")
    ELSE Returned(Features(saveData))

\* btoa(sha256(seed)).slice(0, 32)
DerivedKey(seed) == [t |-> "key", v |-> seed]

\* Object.keys(saveData), not sorted
ReplacerKeys_Unsorted(saveData) == ObjectKeys(saveData)

\* Object.keys(saveData).sort(): the replacer array of generateSignature
ReplacerKeys(saveData) == SortStrings(ObjectKeys(saveData))

\* JSON.stringify(x, allow) with an array replacer: at every depth an object
\* keeps only the properties named in allow, in the order of allow; an array
\* keeps every element; an undefined property is left out
RECURSIVE Stringify(_, _)
Stringify(x, allow) ==
  CASE x.t = "object" ->
         LET ks == SelectSeq(allow, LAMBDA k : HasKey(x, k) /\ Get(x, k).t # "undefined")
         IN Obj([i \in 1..Len(ks) |-> <<ks[i], Stringify(Get(x, ks[i]), allow)>>])
    [] x.t = "array" ->
         Arr([i \in 1..Len(x.v) |->
               IF x.v[i].t = "undefined" THEN Null ELSE Stringify(x.v[i], allow)])
    [] OTHER -> x

\* normalizedData of generateSignature
NormalizedData(saveData) == Stringify(saveData, ReplacerKeys(saveData))

\* btoa(HMAC-SHA-256(dynamicKey, normalizedData))
Signature(normalizedData, dynamicKey) ==
  [t |-> "mac", v |-> [key |-> dynamicKey, data |-> normalizedData]]

\* a validator that asks for the three collections to be there
validateGameLogic_RequiresFields(saveData) ==
  IF TypeOf(saveData) # "object" \/ saveData.t = "null"
    THEN [valid |-> FALSE, reason |-> "save format error"]
  ELSE IF TypeOf(Get(saveData, "unlocked")) # "object"
    THEN [valid |-> FALSE, reason |-> "unlocked data format error"]
  ELSE IF ~IsArray(Get(saveData, "history"))
    THEN [valid |-> FALSE, reason |-> "history format error"]
  ELSE IF ~IsArray(Get(saveData, "missions"))
    THEN [valid |-> FALSE, reason |-> "missions data format error"]
  ELSE [valid |-> TRUE, reason |-> ""]

\* validateGameLogic
validateGameLogic(saveData) ==
  IF TypeOf(saveData) # "object" \/ saveData.t = "null"
    THEN [valid |-> FALSE, reason |-> "save format error"]
  ELSE LET unlocked == OrElse(Get(saveData, "unlocked"), Obj(<<>>))
           history == OrElse(Get(saveData, "history"), Arr(<<>>))
           missions == OrElse(Get(saveData, "missions"), Arr(<<>>))
       IN IF TypeOf(unlocked) # "object"
            THEN [valid |-> FALSE, reason |-> "unlocked data format error"]
          ELSE IF ~IsArray(history)
            THEN [valid |-> FALSE, reason |-> "history format error"]
          ELSE IF ~IsArray(missions)
            THEN [valid |-> FALSE, reason |-> "missions data format error"]
          ELSE [valid |-> TRUE, reason |-> ""]

\* `save structure error: ${logicCheck.reason}`
StructureMessage(reason) == <<"save structure error: ", reason>>

\* ------------------------------------------------------------------ inputs

\* how far the wall clock advances, in days
MaxTicks == 2

Names == {"a", "b", "a,b"}
Emoji1 == Arr(<<Str("e1")>>)
Emoji2 == Arr(<<Str("e2")>>)
Entity(n) == Obj(<<<<"name", Str(n)>>, <<"emoji", Emoji1>>>>)
Mission(n, d) == Obj(<<<<"name", Str(n)>>, <<"emoji", Emoji1>>, <<"done", Bool(d)>>>>)
HistoryEntry(a, b, res) == Obj(<<<<"a", Entity(a)>>, <<"b", Entity(b)>>, <<"res", Entity(res)>>>>)

\* unlocked: name -> emoji mappings the game state can hold
UnlockedMaps ==
  { Obj(<<>>),
    Obj(<<<<"a", Emoji1>>>>),
    Obj(<<<<"a", Emoji2>>>>),
    Obj(<<<<"b", Emoji1>>, <<"a", Emoji1>>>>),
    Obj(<<<<"a", Emoji1>>, <<"b", Emoji1>>>>),
    Obj(<<<<"a", Emoji1>>, <<"a,b", Emoji2>>>>) }
\* values of other types a caller or a save file can put there
UnlockedOdd == { Str("x"), Num(0), Null, Arr(<<>>), Arr(<<Emoji1>>) }

MissionLists ==
  { Arr(<<>>),
    Arr(<<Mission("a", TRUE)>>),
    Arr(<<Mission("a", FALSE)>>),
    Arr(<<Mission("b", FALSE)>>),
    Arr(<<Mission("a", TRUE), Mission("b", TRUE)>>),
    Arr(<<Mission("b", TRUE), Mission("a", TRUE)>>),
    Arr(<<Mission("a", TRUE), Mission("b", FALSE)>>),
    Arr(<<Mission("a,b", TRUE)>>),
    Arr(<<Mission("a", TRUE), Mission("a", TRUE)>>) }
MissionsOdd == { Str("x"), Num(0), Arr(<<Null>>), Arr(<<Mission("a", TRUE), Undef>>) }

Histories ==
  { Arr(<<>>),
    Arr(<<HistoryEntry("a", "b", "a,b")>>),
    Arr(<<HistoryEntry("b", "b", "a")>>) }
HistoryOdd == { Str("oops"), Num(0), Obj(<<>>) }

Versions == { Num(1), Num(2) }
VersionOdd == { Num(0), Str("1") }

FieldValues(k) ==
  CASE k = "unlocked" -> UnlockedMaps \cup UnlockedOdd
    [] k = "history" -> Histories \cup HistoryOdd
    [] k = "missions" -> MissionLists \cup MissionsOdd
    [] k = "version" -> Versions \cup VersionOdd

\* the object with the given fields, inserted in this order; Undef: absent
Snapshot(unlocked, history, missions, version) ==
  Obj(SelectSeq(<<<<"unlocked", unlocked>>, <<"history", history>>,
                  <<"missions", missions>>, <<"version", version>>>>,
                LAMBDA p : p[2] # Undef))

BaseSnapshot ==
  Snapshot(Obj(<<<<"a", Emoji1>>>>), Arr(<<>>), Arr(<<Mission("a", TRUE)>>), Num(1))

\* snapshots of the shape the game keeps, any field possibly absent
ShapedSnapshots ==
  { Snapshot(u, h, m, v) :
      u \in {Undef, Obj(<<>>), Obj(<<<<"a", Emoji1>>>>),
             Obj(<<<<"b", Emoji1>>, <<"a", Emoji1>>>>),
             Obj(<<<<"a", Emoji1>>, <<"a,b", Emoji2>>>>)},
      h \in {Undef, Arr(<<HistoryEntry("a", "b", "a,b")>>)},
      m \in {Undef, Arr(<<Mission("a", TRUE)>>), Arr(<<Mission("b", FALSE)>>),
             Arr(<<Mission("b", TRUE), Mission("a", TRUE)>>),
             Arr(<<Mission("a,b", TRUE)>>)},
      v \in {Undef, Num(1), Num(2)} }

\* the base snapshot with one field of another type or with malformed entries
OddSnapshots ==
  { SetKey(BaseSnapshot, k, val) :
      k \in {"unlocked"}, val \in UnlockedOdd } \cup
  { SetKey(BaseSnapshot, "history", val) : val \in HistoryOdd } \cup
  { SetKey(BaseSnapshot, "missions", val) : val \in MissionsOdd } \cup
  { SetKey(BaseSnapshot, "version", val) : val \in VersionOdd }

\* what a caller can pass to secureExport or secureImport
NonObjects == { Null, Undef, Str("x"), Num(7) }
Inputs == ShapedSnapshots \cup OddSnapshots \cup NonObjects

\* ------------------------------------------------------------------- state

VARIABLES
  saveData,      \* the caller's snapshot, the argument of secureExport
  now,           \* the wall clock, what Date.now() returns
  exp,           \* the secureExport call: its position, locals and outcome
  importedData,  \* the argument of secureImport
  source,        \* where importedData came from and how it was changed
  imp,           \* the secureImport call: its position, locals and outcome
  pair,          \* two snapshots and the keys generateDynamicKey derives from them
  calls,         \* concurrent calls on one SafeFile instance, each with its locals
  pending,       \* CombineEngine: this.pending, the drops waiting for a partner
  eng            \* CombineEngine: the last handler call and the number of calls

vars == <<saveData, now, exp, importedData, source, imp, pair, calls, pending, eng>>

\* an async call settles once: it resolves with a value or rejects
Resolved(value) == [settled |-> "resolved", value |-> value]
Rejected(error) == [settled |-> "rejected", value |-> error]
Settle(frame, outcome) ==
  [frame EXCEPT !.pc = "done", !.settled = outcome.settled, !.result = outcome.value]

FormatReason == <<"not a secure save format">>
TimestampReason == <<"save timestamp abnormal">>
IntegrityReason == <<"save integrity check failed - possibly modified">>
CryptoMessage == <<"OperationError: crypto.subtle failed">>

\* secureExport without its catch: the error leaves the call
ExportCatch_Rethrows(message) == Rejected(message)

\* catch (error) of secureExport
ExportCatch(message) == Resolved([success |-> FALSE, error |-> message])

\* catch (error) of secureImport: `import error: ${error.message}`
ImportCatch(message) ==
  Resolved([success |-> FALSE, reason |-> <<"import error: ">> \o message])

ImportFailure(reason) == Resolved([success |-> FALSE, reason |-> reason])

NoTamper == [kind |-> "none"]

ExpIdle ==
  [pc |-> "idle", seed |-> Undef, dynamicKey |-> Undef, normalizedData |-> Undef,
   settled |-> "pending", result |-> Undef]

ImpIdle ==
  [pc |-> "idle", signature |-> Undef, timestamp |-> Undef, gameData |-> Undef,
   callTime |-> 0, seed |-> Undef, expectedKey |-> Undef, normalizedData |-> Undef,
   expectedSignature |-> Undef, settled |-> "pending", result |-> Undef]

NoPair == [pc |-> "none", s1 |-> Undef, s2 |-> Undef, seed1 |-> Undef, seed2 |-> Undef,
           key1 |-> Undef, key2 |-> Undef]

\* no engine call was made
NoEngine ==
  [calls |-> 0,
   last |-> [op |-> "none", parsed |-> [ok |-> FALSE, val |-> Undef],
             returned |-> FALSE, combined |-> FALSE,
             a |-> Undef, b |-> Undef, key |-> "", res |-> Undef, entry |-> Undef,
             marked |-> Undef, regen |-> FALSE]]

Init ==
  /\ saveData \in Inputs
  /\ now = ReleaseTime
  /\ exp = ExpIdle
  /\ importedData = Undef
  /\ source = [from |-> "none", tamper |-> NoTamper]
  /\ imp = ImpIdle
  /\ pair = NoPair
  /\ calls = <<>>
  /\ pending = <<>>
  /\ eng = NoEngine

\* ------------------------------------------------------------ secureExport

\* secureExport(data) up to the await of crypto.subtle.digest
ExportEnter(frame, data) ==
  LET logicCheck == validateGameLogic(data)
      seed == DynamicKeySeed(data)
  IN IF ~logicCheck.valid
       THEN Settle(frame, ExportCatch(StructureMessage(logicCheck.reason)))
     ELSE IF seed.thrown
       THEN Settle(frame, ExportCatch(<<seed.message>>))
     ELSE [frame EXCEPT !.pc = "digest", !.seed = seed.value]

\* the digest settles (ok) or rejects; generateSignature runs up to the await
\* of importKey
ExportAfterDigest(frame, data, ok) ==
  IF ok
    THEN [frame EXCEPT !.pc = "importKey",
                       !.dynamicKey = DerivedKey(frame.seed),
                       !.normalizedData = NormalizedData(data)]
    ELSE Settle(frame, ExportCatch(CryptoMessage))

\* importKey settles or rejects; crypto.subtle.sign is awaited
ExportAfterImportKey(frame, ok) ==
  IF ok THEN [frame EXCEPT !.pc = "sign"]
        ELSE Settle(frame, ExportCatch(CryptoMessage))

\* an envelope without the format version
SecureData_NoVersion(data, signature, timestamp) ==
  SetKey(SetKey(data, INTEGRITY_KEY, signature), TIMESTAMP_KEY, Num(timestamp))

\* { ...saveData, _sf_integrity, _sf_timestamp: Date.now(), _sf_version: '1.0' }
SecureData(data, signature, timestamp) ==
  SetKey(SetKey(SetKey(data, INTEGRITY_KEY, signature),
                TIMESTAMP_KEY, Num(timestamp)),
         VERSION_KEY, Str("1.0"))

ExportInfo(data) ==
  [elements |-> Len(UnlockedKeys(data)),
   history |-> Length(OrElse(Get(data, "history"), Arr(<<>>))),
   missions |-> Length(OrElse(Get(data, "missions"), Arr(<<>>)))]

\* sign settles or rejects; the envelope is built with the key the call
\* derived and the clock read now, and returned
ExportAfterSign(frame, dynamicKey, data, clock, ok) ==
  IF ok
    THEN Settle(frame, Resolved(
           [success |-> TRUE,
            data |-> SecureData(data, Signature(frame.normalizedData, dynamicKey), clock),
            info |-> ExportInfo(data)]))
    ELSE Settle(frame, ExportCatch(CryptoMessage))

\* secureExport up to the await of crypto.subtle.digest
ExportCall ==
  /\ exp.pc = "idle"
  /\ source.from = "none"
  /\ exp' = ExportEnter(exp, saveData)
  /\ UNCHANGED <<saveData, now, importedData, source, imp, pair, calls, pending, eng>>

\* the digest settles; generateSignature runs up to the await of importKey
ExportDigest ==
  /\ exp.pc = "digest"
  /\ \E ok \in BOOLEAN : exp' = ExportAfterDigest(exp, saveData, ok)
  /\ UNCHANGED <<saveData, now, importedData, source, imp, pair, calls, pending, eng>>

\* importKey settles; crypto.subtle.sign is awaited
ExportImportKey ==
  /\ exp.pc = "importKey"
  /\ \E ok \in BOOLEAN : exp' = ExportAfterImportKey(exp, ok)
  /\ UNCHANGED <<saveData, now, importedData, source, imp, pair, calls, pending, eng>>

\* the object literal that spreads saveData is a new object held by the
\* call alone: saveData keeps its own properties
ArgumentAfterSpread(data, secureData) == data

\* sign settles; the envelope is built and returned
ExportSign ==
  /\ exp.pc = "sign"
  /\ \E ok \in BOOLEAN : exp' = ExportAfterSign(exp, exp.dynamicKey, saveData, now, ok)
  /\ saveData' = ArgumentAfterSpread(saveData, SecureData(saveData, Undef, now))
  /\ UNCHANGED <<now, importedData, source, imp, pair, calls, pending, eng>>

\* ------------------------------------------------- what reaches secureImport

TimestampChoices ==
  {0, ReleaseTime - 1, ReleaseTime, now, now + DayInMs, now + DayInMs + 1,
   now + 2 * DayInMs}

Reverse(s) == [i \in 1..Len(s) |-> s[Len(s) + 1 - i]]

SnapshotKeys == {"unlocked", "history", "missions", "version"}

\* the single changes made to an exported envelope before it is imported
Tampers(envelope) ==
  {NoTamper}
  \cup {[kind |-> "timestamp", value |-> Num(ts)] : ts \in TimestampChoices}
  \cup {[kind |-> "signature", value |-> v] : v \in {Undef, Str(""), Str("forged")}}
  \cup UNION {{[kind |-> "field", key |-> k, value |-> v] :
                 v \in {x \in FieldValues(k) : x # Get(envelope, k)}} :
              k \in {x \in SnapshotKeys : HasKey(envelope, x)}}
  \cup {[kind |-> "reorder", value |-> o] : o \in {Str("reverse"), Str("rotate")}}

ApplyTamper(envelope, tm) ==
  CASE tm.kind = "none" -> envelope
    [] tm.kind = "timestamp" -> SetKey(envelope, TIMESTAMP_KEY, tm.value)
    [] tm.kind = "signature" ->
         IF tm.value = Undef THEN WithoutKeys(envelope, {INTEGRITY_KEY})
                             ELSE SetKey(envelope, INTEGRITY_KEY, tm.value)
    [] tm.kind = "field" -> SetKey(envelope, tm.key, tm.value)
    [] tm.kind = "reorder" ->
         IF tm.value = Str("reverse") THEN Obj(Reverse(envelope.v))
                                 ELSE Obj(Tail(envelope.v) \o <<Head(envelope.v)>>)

\* the envelope of a successful export is stored, possibly changed, and loaded
LoadExported ==
  /\ source.from = "none"
  /\ exp.pc = "done" /\ exp.settled = "resolved" /\ exp.result.success
  /\ \E tm \in Tampers(exp.result.data) :
       /\ importedData' = ApplyTamper(exp.result.data, tm)
       /\ source' = [from |-> "export", tamper |-> tm]
  /\ UNCHANGED <<saveData, now, exp, imp, pair, calls, pending, eng>>

\* a file that no export produced is loaded: the plain snapshot, the snapshot
\* with a timestamp only, or the snapshot with a made-up signature
LoadForeign ==
  /\ source.from = "none"
  /\ exp.pc = "idle"
  /\ \/ /\ importedData' = saveData
        /\ source' = [from |-> "plain", tamper |-> NoTamper]
     \/ /\ saveData.t = "object"
        /\ \E ts \in TimestampChoices :
             /\ importedData' = SetKey(saveData, TIMESTAMP_KEY, Num(ts))
             /\ source' = [from |-> "plain",
                           tamper |-> [kind |-> "timestamp", value |-> Num(ts)]]
     \/ /\ saveData.t = "object"
        /\ \E ts \in TimestampChoices :
             /\ importedData' = SetKey(SetKey(saveData, INTEGRITY_KEY, Str("forged")),
                                       TIMESTAMP_KEY, Num(ts))
             /\ source' = [from |-> "forged",
                           tamper |-> [kind |-> "timestamp", value |-> Num(ts)]]
  /\ UNCHANGED <<saveData, now, exp, imp, pair, calls, pending, eng>>

\* ------------------------------------------------------------ secureImport

\* a destructuring that leaves _sf_version in gameData
RestOf_KeepsVersion(data) ==
  IF data.t = "object" THEN WithoutKeys(data, {INTEGRITY_KEY, TIMESTAMP_KEY})
                       ELSE Obj(<<>>)

\* const { _sf_integrity, _sf_timestamp, _sf_version, ...gameData } = importedData
\* (the one string of the model has one character; a number has no own keys)
RestOf(data) ==
  CASE data.t = "object" -> WithoutKeys(data, ReservedKeys)
    [] data.t = "string" -> Obj(<<<<"0", data>>>>)
    [] OTHER -> Obj(<<>>)

\* no presence gate
PresenceGateFails_Never(signature) == FALSE

\* if (!signature)
PresenceGateFails(signature) == ~Truthy(signature)

\* if (timestamp) { ... timestamp < releaseTime || timestamp > now + dayInMs }
\* (every timestamp of the model is a number)
TimestampGateFails(timestamp, clock) ==
  /\ Truthy(timestamp)
  /\ \/ timestamp.v < ReleaseTime
     \/ timestamp.v > clock + DayInMs

\* reserved keys removed from the argument itself
ArgumentAfterRest_Deleted(data, gameData) == gameData

\* the rest pattern copies the remaining properties into a new object:
\* importedData keeps all of its properties
ArgumentAfterRest(data, gameData) == data

\* secureImport(data) up to the await of crypto.subtle.digest; clock is what
\* Date.now() returns at the timestamp gate
ImportEnter(frame, data, clock) ==
  IF data.t \in {"null", "undefined"}
    THEN Settle([frame EXCEPT !.callTime = clock],
                ImportCatch(<<"TypeError: cannot destructure">>))
    ELSE LET entered == [frame EXCEPT !.signature = Get(data, INTEGRITY_KEY),
                                      !.timestamp = Get(data, TIMESTAMP_KEY),
                                      !.gameData = RestOf(data),
                                      !.callTime = clock]
             logicCheck == validateGameLogic(entered.gameData)
             seed == DynamicKeySeed(entered.gameData)
         IN IF PresenceGateFails(entered.signature)
              THEN Settle(entered, ImportFailure(FormatReason))
            ELSE IF TimestampGateFails(entered.timestamp, clock)
              THEN Settle(entered, ImportFailure(TimestampReason))
            ELSE IF ~logicCheck.valid
              THEN Settle(entered, ImportFailure(StructureMessage(logicCheck.reason)))
            ELSE IF seed.thrown
              THEN Settle(entered, ImportCatch(<<seed.message>>))
            ELSE [entered EXCEPT !.pc = "digest", !.seed = seed.value]

\* the digest settles or rejects; generateSignature runs up to the await of
\* importKey
ImportAfterDigest(frame, ok) ==
  IF ok
    THEN [frame EXCEPT !.pc = "importKey",
                       !.expectedKey = DerivedKey(frame.seed),
                       !.normalizedData = NormalizedData(frame.gameData)]
    ELSE Settle(frame, ImportCatch(CryptoMessage))

\* importKey settles or rejects; crypto.subtle.sign is awaited
ImportAfterImportKey(frame, ok) ==
  IF ok THEN [frame EXCEPT !.pc = "sign"]
        ELSE Settle(frame, ImportCatch(CryptoMessage))

\* no comparison of the signatures
SignatureGateFails_Never(signature, expectedSignature) == FALSE

\* if (signature !== expectedSignature)
SignatureGateFails(signature, expectedSignature) == signature # expectedSignature

\* sign settles or rejects; the signatures are compared and the result
\* returned; clock is what Date.now() returns after the comparison
ImportAfterSign(frame, expectedKey, clock, ok) ==
  IF ok
    THEN LET expected == Signature(frame.normalizedData, expectedKey)
             compared == [frame EXCEPT !.expectedSignature = expected]
         IN IF SignatureGateFails(frame.signature, expected)
              THEN Settle(compared, ImportFailure(IntegrityReason))
              ELSE Settle(compared, Resolved(
                     [success |-> TRUE,
                      data |-> frame.gameData,
                      info |-> [importTime |-> OrElse(frame.timestamp, Num(clock)),
                                elements |-> Len(UnlockedKeys(frame.gameData)),
                                verified |-> TRUE]]))
    ELSE Settle(frame, ImportCatch(CryptoMessage))

\* secureImport up to the await of crypto.subtle.digest
ImportCall ==
  /\ imp.pc = "idle"
  /\ source.from # "none"
  /\ imp' = ImportEnter(imp, importedData, now)
  /\ importedData' = IF importedData.t \in {"null", "undefined"}
                       THEN importedData
                       ELSE ArgumentAfterRest(importedData, RestOf(importedData))
  /\ UNCHANGED <<saveData, now, exp, source, pair, calls, pending, eng>>

ImportDigest ==
  /\ imp.pc = "digest"
  /\ \E ok \in BOOLEAN : imp' = ImportAfterDigest(imp, ok)
  /\ UNCHANGED <<saveData, now, exp, importedData, source, pair, calls, pending, eng>>

ImportImportKey ==
  /\ imp.pc = "importKey"
  /\ \E ok \in BOOLEAN : imp' = ImportAfterImportKey(imp, ok)
  /\ UNCHANGED <<saveData, now, exp, importedData, source, pair, calls, pending, eng>>

\* sign settles; the signatures are compared and the result returned
ImportSign ==
  /\ imp.pc = "sign"
  /\ \E ok \in BOOLEAN : imp' = ImportAfterSign(imp, imp.expectedKey, now, ok)
  /\ UNCHANGED <<saveData, now, exp, importedData, source, pair, calls, pending, eng>>

\* a day passes
Tick ==
  /\ now < ReleaseTime + MaxTicks * DayInMs
  /\ now' = now + DayInMs
  /\ UNCHANGED <<saveData, exp, importedData, source, imp, pair, calls, pending, eng>>

Next ==
  \/ ExportCall \/ ExportDigest \/ ExportImportKey \/ ExportSign
  \/ LoadExported \/ LoadForeign
  \/ ImportCall \/ ImportDigest \/ ImportImportKey \/ ImportSign
  \/ Tick

Spec == Init /\ [][Next]_vars

\* --------------------------------------- generateDynamicKey on two snapshots

\* snapshots that pass validateGameLogic and whose mission entries are records
KeyInputs ==
  { Snapshot(u, h, m, v) :
      u \in {Undef} \cup UnlockedMaps,
      h \in {Undef, Arr(<<HistoryEntry("a", "b", "a,b")>>)},
      m \in {Undef} \cup MissionLists,
      v \in {Undef} \cup Versions }

InitPair ==
  /\ saveData = Undef
  /\ now = ReleaseTime
  /\ exp = ExpIdle
  /\ importedData = Undef
  /\ source = [from |-> "none", tamper |-> NoTamper]
  /\ imp = ImpIdle
  /\ \E s1 \in KeyInputs, s2 \in KeyInputs :
       pair = [NoPair EXCEPT !.pc = "call", !.s1 = s1, !.s2 = s2]
  /\ calls = <<>>
  /\ pending = <<>>
  /\ eng = NoEngine

\* both calls of generateDynamicKey run up to their await
PairCall ==
  /\ pair.pc = "call"
  /\ pair' = [pair EXCEPT !.pc = "digest",
                          !.seed1 = DynamicKeySeed(pair.s1).value,
                          !.seed2 = DynamicKeySeed(pair.s2).value]
  /\ UNCHANGED <<saveData, now, exp, importedData, source, imp, calls, pending, eng>>

\* both digests settle and the keys are returned
PairDigest ==
  /\ pair.pc = "digest"
  /\ pair' = [pair EXCEPT !.pc = "done",
                          !.key1 = DerivedKey(pair.seed1),
                          !.key2 = DerivedKey(pair.seed2)]
  /\ UNCHANGED <<saveData, now, exp, importedData, source, imp, calls, pending, eng>>

NextPair == PairCall \/ PairDigest

SpecPair == InitPair /\ [][NextPair]_vars

\* ------------------------------------- concurrent calls on one SafeFile

\* the calls in flight on the instance
CallIds == {1, 2}

\* the activation of a call: its argument, its position and its locals; fault
\* is the primitive that rejected, clock what Date.now() returned last
CallIdle(kind, input) ==
  [kind |-> kind, input |-> input, pc |-> "idle",
   seed |-> Undef, dynamicKey |-> Undef, normalizedData |-> Undef,
   signature |-> Undef, timestamp |-> Undef, gameData |-> Undef, callTime |-> 0,
   expectedKey |-> Undef, expectedSignature |-> Undef,
   settled |-> "pending", result |-> Undef,
   fault |-> "none", clock |-> 0, overlapped |-> FALSE]

\* the envelope secureExport(S) returns at the clock reading ts
Envelope(S, ts) ==
  SecureData(S, Signature(NormalizedData(S), DerivedKey(DynamicKeySeed(S).value)), ts)

CallInputs ==
  {[kind |-> "export", input |-> S] :
     S \in {BaseSnapshot,
            Snapshot(Obj(<<<<"b", Emoji1>>, <<"a", Emoji1>>>>), Undef,
                     Arr(<<Mission("b", TRUE), Mission("a", TRUE)>>), Num(2)),
            SetKey(BaseSnapshot, "history", Str("oops")),
            SetKey(BaseSnapshot, "missions", Arr(<<Null>>)),
            Null}}
  \cup
  {[kind |-> "import", input |-> E] :
     E \in {Envelope(BaseSnapshot, ReleaseTime),
            Envelope(BaseSnapshot, ReleaseTime + 2 * DayInMs),
            SetKey(Envelope(BaseSnapshot, ReleaseTime), TIMESTAMP_KEY, Num(0)),
            SetKey(Envelope(BaseSnapshot, ReleaseTime), INTEGRITY_KEY, Str("forged")),
            BaseSnapshot}}

InitCalls ==
  /\ saveData = Undef
  /\ now = ReleaseTime
  /\ exp = ExpIdle
  /\ importedData = Undef
  /\ source = [from |-> "none", tamper |-> NoTamper]
  /\ imp = ImpIdle
  /\ pair = NoPair
  /\ \E c1 \in CallInputs, c2 \in CallInputs :
       calls = <<CallIdle(c1.kind, c1.input), CallIdle(c2.kind, c2.input)>>
  /\ pending = <<>>
  /\ eng = NoEngine

\* the step of call i is taken while another call is suspended at an await
Overlaps(cs, i) == \E j \in CallIds \ {i} : cs[j].pc \in {"digest", "importKey", "sign"}

\* the result of the step of call i, with what the step read and met
Stepped(cs, i, frame, ok, at) ==
  [frame EXCEPT !.fault = IF ok THEN @ ELSE at,
                !.clock = now,
                !.overlapped = @ \/ Overlaps(cs, i)]

\* every call reads the key that call 1 derived, as if it were kept in a
\* field of the instance
KeyOfCall_OnInstance(cs, i) ==
  IF cs[1].kind = "export" THEN cs[1].dynamicKey ELSE cs[1].expectedKey

\* const dynamicKey / const expectedKey: a local of the call
KeyOfCall(cs, i) ==
  IF cs[i].kind = "export" THEN cs[i].dynamicKey ELSE cs[i].expectedKey

\* call i runs up to its first await
CallEnter(i) ==
  /\ calls[i].pc = "idle"
  /\ calls' = [calls EXCEPT ![i] =
                 Stepped(calls, i,
                         IF @.kind = "export" THEN ExportEnter(@, @.input)
                                              ELSE ImportEnter(@, @.input, now),
                         TRUE, "none")]
  /\ UNCHANGED <<saveData, now, exp, importedData, source, imp, pair, pending, eng>>

\* the digest that call i awaits settles or rejects
CallDigest(i) ==
  /\ calls[i].pc = "digest"
  /\ \E ok \in BOOLEAN :
       calls' = [calls EXCEPT ![i] =
                  Stepped(calls, i,
                          IF @.kind = "export" THEN ExportAfterDigest(@, @.input, ok)
                                               ELSE ImportAfterDigest(@, ok),
                          ok, "digest")]
  /\ UNCHANGED <<saveData, now, exp, importedData, source, imp, pair, pending, eng>>

\* the importKey that call i awaits settles or rejects
CallImportKey(i) ==
  /\ calls[i].pc = "importKey"
  /\ \E ok \in BOOLEAN :
       calls' = [calls EXCEPT ![i] =
                  Stepped(calls, i,
                          IF @.kind = "export" THEN ExportAfterImportKey(@, ok)
                                               ELSE ImportAfterImportKey(@, ok),
                          ok, "importKey")]
  /\ UNCHANGED <<saveData, now, exp, importedData, source, imp, pair, pending, eng>>

\* the sign that call i awaits settles or rejects; the call returns
CallSign(i) ==
  /\ calls[i].pc = "sign"
  /\ \E ok \in BOOLEAN :
       calls' = [calls EXCEPT ![i] =
                  Stepped(calls, i,
                          IF @.kind = "export"
                            THEN ExportAfterSign(@, KeyOfCall(calls, i), @.input, now, ok)
                            ELSE ImportAfterSign(@, KeyOfCall(calls, i), now, ok),
                          ok, "sign")]
  /\ UNCHANGED <<saveData, now, exp, importedData, source, imp, pair, pending, eng>>

NextCalls ==
  \/ \E i \in CallIds : CallEnter(i)
  \/ \E i \in CallIds : CallDigest(i)
  \/ \E i \in CallIds : CallImportKey(i)
  \/ \E i \in CallIds : CallSign(i)
  \/ Tick

SpecCalls == InitCalls /\ [][NextCalls]_vars

\* the call run alone from start to end: the same argument, the same clock
\* readings (callTime at the timestamp gate, clock at the end) and the same
\* primitive rejecting, if any
RunAlone(kind, input, callTime, clock, fault) ==
  LET f0 == CallIdle(kind, input)
      f1 == IF kind = "export" THEN ExportEnter(f0, input)
                               ELSE ImportEnter(f0, input, callTime)
      f2 == IF f1.pc = "done" THEN f1
            ELSE IF kind = "export" THEN ExportAfterDigest(f1, input, fault # "digest")
            ELSE ImportAfterDigest(f1, fault # "digest")
      f3 == IF f2.pc = "done" THEN f2
            ELSE IF kind = "export" THEN ExportAfterImportKey(f2, fault # "importKey")
            ELSE ImportAfterImportKey(f2, fault # "importKey")
      f4 == IF f3.pc = "done" THEN f3
            ELSE IF kind = "export"
              THEN ExportAfterSign(f3, f3.dynamicKey, input, clock, fault # "sign")
            ELSE ImportAfterSign(f3, f3.expectedKey, clock, fault # "sign")
  IN [settled |-> f4.settled, result |-> f4.result]

\* ------------------------------------------------------------ CombineEngine

\* in the specifications of the engine, saveData is the object the engine
\* holds as this.state: { known, unlocked, history, missions }

\* the calls of combine and handleDrop a behaviour makes
MaxCalls == 2

\* this.state.history.length > 35
HistoryLimit == 35
\* this.state.history.splice(0, 10)
HistoryCut == 10

\* the names joined in the order of the arguments
normPair_Unsorted(a, b) == a \o "+" \o b

\* normPair(a, b): [a, b].sort().join('+')
normPair(a, b) ==
  LET sorted == SortStrings(<<a, b>>) IN sorted[1] \o "+" \o sorted[2]

\* dependencies.seedMap: recipe key -> [name, emoji]
seedMap == Obj(<<<<"a+b", Arr(<<Str("a,b"), Emoji2>>)>>>>)

\* what generateName(a.name, b.name) and pickEmojiByName(name) can return:
\* injected functions, any name for any ordered pair
Generated == { [name |-> "a", emoji |-> Emoji2], [name |-> "b", emoji |-> Emoji2] }

\* what regenMissions() can leave in this.state.missions: an injected function
RegenLists ==
  { Arr(<<Mission("b", FALSE)>>),
    Arr(<<Mission("a", FALSE), Mission("a,b", FALSE)>>) }

\* if (!Array.isArray(a.emoji)) a.emoji = [a.emoji]
EnsureArray(x) ==
  SetKey(x, "emoji", IF IsArray(Get(x, "emoji")) THEN Get(x, "emoji")
                                                  ELSE Arr(<<Get(x, "emoji")>>))

\* the history left as it grew
TrimHistory_Never(history) == history

\* if (history.length > 35) history.splice(0, 10)
TrimHistory(history) ==
  IF Len(history) > HistoryLimit
    THEN SubSeq(history, HistoryCut + 1, Len(history))
    ELSE history

\* the loop over the missions: no mission is marked
MarkMissions_Never(missions, name) == missions

\* for (const m of missions) if (!m.done && m.name === res.name) m.done = true
MarkMissions(missions, name) ==
  [i \in 1..Len(missions) |->
     IF ~Truthy(Get(missions[i], "done")) /\ Get(missions[i], "name") = name
       THEN SetKey(missions[i], "done", Bool(TRUE))
       ELSE missions[i]]

\* missions.length > 0 && missions.every(m => m.done)
AllDone(missions) ==
  Len(missions) > 0 /\ \A i \in 1..Len(missions) : Truthy(Get(missions[i], "done"))

\* res of combine: the recorded result, else the seed recipe, else a
\* generated name with its emoji
Recipe(state, key, generated) ==
  LET recorded == Get(Get(state, "known"), key)
      seed == Get(seedMap, key)
  IN IF Truthy(recorded) THEN recorded
     ELSE IF Truthy(seed)
       THEN Obj(<<<<"name", seed.v[1]>>, <<"emoji", seed.v[2]>>>>)
     ELSE Obj(<<<<"name", Str(generated.name)>>, <<"emoji", generated.emoji>>>>)

\* if (!unlocked[res.name]) unlocked[res.name] = res.emoji
Unlock(unlocked, res) ==
  IF ~Truthy(Get(unlocked, Get(res, "name").v))
    THEN SetKey(unlocked, Get(res, "name").v, Get(res, "emoji"))
    ELSE unlocked

\* combine(a, b): the state it leaves and what it computed; generated is what
\* the name and emoji functions return when asked, regenerated the list that
\* regenMissions() installs when it is called
combine(state, a0, b0, generated, regenerated) ==
  LET a == EnsureArray(a0)
      b == EnsureArray(b0)
      key == normPair(Get(a, "name").v, Get(b, "name").v)
      res == Recipe(state, key, generated)
      known == SetKey(Get(state, "known"), key, res)
      unlocked == Unlock(Get(state, "unlocked"), res)
      entry == Obj(<<<<"a", a>>, <<"b", b>>, <<"res", res>>>>)
      history == TrimHistory(Append(Get(state, "history").v, entry))
      marked == MarkMissions(Get(state, "missions").v, Get(res, "name"))
      allDone == AllDone(marked)
      missions == IF allDone THEN regenerated ELSE Arr(marked)
  IN [state |-> SetKey(SetKey(SetKey(SetKey(state, "known", known),
                                     "unlocked", unlocked),
                              "history", Arr(history)),
                       "missions", missions),
      a |-> a, b |-> b, key |-> key, res |-> res, entry |-> entry,
      marked |-> Arr(marked), regen |-> allDone]

NoParse == [ok |-> FALSE, val |-> Undef]

\* the record of a handler call: what it was given, what it returned and,
\* when it ran combine, what combine computed
NoCombine ==
  [a |-> Undef, b |-> Undef, key |-> "", res |-> Undef, entry |-> Undef,
   marked |-> Undef, regen |-> FALSE]
LastCall(op, parsed, returned, combined, c) ==
  [op |-> op, parsed |-> parsed, returned |-> returned, combined |-> combined,
   a |-> c.a, b |-> c.b, key |-> c.key, res |-> c.res, entry |-> c.entry,
   marked |-> c.marked, regen |-> c.regen]

\* the tokens of the board, and one whose emoji is a single string
Tokens == { Entity("a"), Entity("b") }
RawToken == Obj(<<<<"name", Str("b")>>, <<"emoji", Str("e1")>>>>)

\* what safeParseJSON(data) returns for the texts a drop can carry
Drops ==
  {[ok |-> TRUE, val |-> t] : t \in Tokens}
  \cup {[ok |-> FALSE, val |-> Undef],
        [ok |-> TRUE, val |-> Null],
        [ok |-> TRUE, val |-> Str("a")],
        [ok |-> TRUE, val |-> Obj(<<<<"emoji", Emoji1>>>>)],
        [ok |-> TRUE, val |-> Obj(<<<<"name", Num(1)>>, <<"emoji", Emoji1>>>>)],
        [ok |-> TRUE, val |-> RawToken]}

\* a history of n entries, each different from its neighbours
FillerEntry(i) ==
  CASE i % 3 = 0 -> Obj(<<<<"a", Entity("a")>>, <<"b", Entity("a")>>, <<"res", Entity("a")>>>>)
    [] i % 3 = 1 -> HistoryEntry("a", "b", "a,b")
    [] OTHER -> HistoryEntry("b", "b", "a")
Filler(n) == Arr([i \in 1..n |-> FillerEntry(i)])

\* the states a session can be in when the engine is constructed
EngineStates ==
  { Obj(<<<<"known", k>>, <<"unlocked", u>>, <<"history", h>>, <<"missions", m>>>>) :
      k \in {Obj(<<>>),
             Obj(<<<<"a+b", Entity("b")>>>>)},
      u \in {Obj(<<<<"a", Emoji1>>, <<"b", Emoji1>>>>),
             Obj(<<<<"a", Emoji1>>, <<"b", Emoji1>>, <<"a,b", Emoji1>>>>)},
      h \in {Filler(0), Filler(HistoryLimit - 1), Filler(HistoryLimit)},
      m \in {Arr(<<>>),
             Arr(<<Mission("a", FALSE), Mission("a", FALSE)>>),
             Arr(<<Mission("a,b", FALSE), Mission("b", TRUE)>>),
             Arr(<<Mission("a", TRUE), Mission("b", FALSE)>>)} }

InitEngine ==
  /\ saveData \in EngineStates
  /\ now = ReleaseTime
  /\ exp = ExpIdle
  /\ importedData = Undef
  /\ source = [from |-> "none", tamper |-> NoTamper]
  /\ imp = ImpIdle
  /\ pair = NoPair
  /\ calls = <<>>
  /\ pending = <<>>
  /\ eng = NoEngine

\* generateName and pickEmojiByName are called only when the pair has no
\* recorded and no seeded recipe
NameChoices(state, a, b) ==
  LET key == normPair(Get(a, "name").v, Get(b, "name").v)
  IN IF Truthy(Get(Get(state, "known"), key)) \/ Truthy(Get(seedMap, key))
       THEN {CHOOSE g \in Generated : TRUE}
       ELSE Generated

\* regenMissions is called only when the loop leaves all missions done
RegenChoices(state, a, b, generated) ==
  IF combine(state, a, b, generated, Arr(<<>>)).regen
    THEN RegenLists
    ELSE {Arr(<<>>)}

\* combine(a, b, x, y) called with two tokens
Combine ==
  /\ eng.calls < MaxCalls
  /\ \E a \in Tokens \cup {RawToken}, b \in Tokens :
     \E generated \in NameChoices(saveData, a, b) :
     \E regenerated \in RegenChoices(saveData, a, b, generated) :
       LET c == combine(saveData, a, b, generated, regenerated)
       IN /\ saveData' = c.state
          /\ eng' = [calls |-> eng.calls + 1,
                     last |-> LastCall("combine", NoParse, FALSE, TRUE, c)]
  /\ UNCHANGED <<now, exp, importedData, source, imp, pair, calls, pending>>

\* if (!parsed.ok || !parsed.val) return false;
\* if (typeof dropData.name !== 'string' || !Array.isArray(dropData.emoji)) return false
DropRefused(parsed) ==
  \/ ~parsed.ok
  \/ ~Truthy(parsed.val)
  \/ TypeOf(Get(parsed.val, "name")) # "string"
  \/ ~IsArray(Get(parsed.val, "emoji"))

\* the two drops taken in the other order
TakePair_Swapped(pushed) ==
  [a |-> pushed[2], b |-> pushed[1], rest |-> SubSeq(pushed, 3, Len(pushed))]

\* const [a, b] = this.pending.splice(0, 2)
TakePair(pushed) ==
  [a |-> pushed[1], b |-> pushed[2], rest |-> SubSeq(pushed, 3, Len(pushed))]

\* handleDrop(data, x, y), with the combine it runs when two drops are pending
HandleDrop ==
  /\ eng.calls < MaxCalls
  /\ \E parsed \in Drops :
       IF DropRefused(parsed)
         THEN /\ eng' = [calls |-> eng.calls + 1,
                         last |-> LastCall("handleDrop", parsed, FALSE, FALSE, NoCombine)]
              /\ UNCHANGED <<saveData, pending>>
       ELSE LET pushed == Append(pending, parsed.val)
            IN IF Len(pushed) >= 2
                 THEN LET taken == TakePair(pushed)
                      IN \E generated \in NameChoices(saveData, taken.a, taken.b) :
                         \E regenerated \in RegenChoices(saveData, taken.a, taken.b,
                                                         generated) :
                           LET c == combine(saveData, taken.a, taken.b,
                                            generated, regenerated)
                           IN /\ pending' = taken.rest
                              /\ saveData' = c.state
                              /\ eng' = [calls |-> eng.calls + 1,
                                         last |-> LastCall("handleDrop", parsed,
                                                           TRUE, TRUE, c)]
                 ELSE /\ pending' = pushed
                      /\ eng' = [calls |-> eng.calls + 1,
                                 last |-> LastCall("handleDrop", parsed, TRUE, FALSE,
                                                   NoCombine)]
                      /\ UNCHANGED saveData
  /\ UNCHANGED <<now, exp, importedData, source, imp, pair, calls>>

NextEngine == Combine \/ HandleDrop

SpecEngine == InitEngine /\ [][NextEngine]_vars

\* ------------------------------------------- export of the live game state

\* the session states with an empty history
LiveStates == {S \in EngineStates : Get(S, "history") = Filler(0)}

InitLive ==
  /\ saveData \in LiveStates
  /\ now = ReleaseTime
  /\ exp = ExpIdle
  /\ importedData = Undef
  /\ source = [from |-> "none", tamper |-> NoTamper]
  /\ imp = ImpIdle
  /\ pair = NoPair
  /\ calls = <<>>
  /\ pending = <<>>
  /\ eng = NoEngine

\* a combine handler runs while secureExport(this.state) is suspended at an await
CombineDuringExport ==
  /\ exp.pc \in {"digest", "importKey", "sign"}
  /\ Combine

\* the envelope the export returned is imported as it is
LoadReturned ==
  /\ source.from = "none"
  /\ exp.pc = "done" /\ exp.settled = "resolved" /\ exp.result.success
  /\ importedData' = exp.result.data
  /\ source' = [from |-> "export", tamper |-> NoTamper]
  /\ UNCHANGED <<saveData, now, exp, imp, pair, calls, pending, eng>>

NextLive ==
  \/ ExportCall \/ ExportDigest \/ ExportImportKey \/ ExportSign
  \/ CombineDuringExport
  \/ LoadReturned
  \/ ImportCall \/ ImportDigest \/ ImportImportKey \/ ImportSign

SpecLive == InitLive /\ [][NextLive]_vars

\* ------------------------------------------------------------------ claims

ExportSucceeded == exp.pc = "done" /\ exp.settled = "resolved" /\ exp.result.success
ExportPrimitiveFailed ==
  /\ exp.pc = "done" /\ exp.settled = "resolved"
  /\ ~exp.result.success /\ exp.result.error = CryptoMessage

ImportSucceeded == imp.pc = "done" /\ imp.settled = "resolved" /\ imp.result.success
ImportFailedWith(reason) ==
  /\ imp.pc = "done" /\ imp.settled = "resolved"
  /\ ~imp.result.success /\ imp.result.reason = reason
ImportPrimitiveFailed == ImportFailedWith(<<"import error: ">> \o CryptoMessage)

\* the unchanged envelope of the export of saveData was imported
ImportedUntouched ==
  imp.pc = "done" /\ source.from = "export" /\ source.tamper.kind = "none"

\* S is an object that the validator accepts
Accepted(S) == S.t = "object" /\ validateGameLogic(S).valid
\* every entry of the missions of an accepted S is there (not null, not undefined)
EntriesPresent(S) ==
  \A i \in 1..Len(MissionEntries(S)) :
    MissionEntries(S)[i].t \notin {"null", "undefined"}

\* C1 as stated: every snapshot that validateGameLogic accepts is exported with
\* success, and importing the returned envelope succeeds with data structurally
\* equal to the snapshot.
C1_RoundTrip_AsClaimed ==
  /\ (exp.pc = "done" /\ Accepted(saveData)) => ExportSucceeded
  /\ ImportedUntouched =>
       (ImportSucceeded /\ StructEq(imp.result.data, saveData))

\* C1, amended: every snapshot that validateGameLogic accepts and whose missions
\* entries are all present (none null or undefined) is exported with success,
\* and importing the returned envelope succeeds with data structurally equal to
\* the snapshot and verified = true, unless a hash or HMAC primitive fails.
C1_RoundTrip ==
  /\ (exp.pc = "done" /\ Accepted(saveData) /\ EntriesPresent(saveData)) =>
       (ExportSucceeded \/ ExportPrimitiveFailed)
  /\ ExportSucceeded =>
       /\ Get(exp.result.data, TIMESTAMP_KEY).v <= now
       /\ StructEq(WithoutKeys(exp.result.data, ReservedKeys), saveData)
  /\ ImportedUntouched =>
       \/ ImportPrimitiveFailed
       \/ /\ ImportSucceeded
          /\ StructEq(imp.result.data, saveData)
          /\ imp.result.info.verified

C1_Witness ==
  /\ ImportedUntouched
  /\ ImportSucceeded
  /\ Len(UnlockedKeys(saveData)) = 2
  /\ Len(MissionEntries(saveData)) = 2
  /\ HasKey(saveData, "history")

\* the imported envelope is an exported one in which one snapshot field was
\* given a value of other content, and the candidate is still well formed
FieldTampered ==
  /\ imp.pc = "done"
  /\ source.from = "export"
  /\ source.tamper.kind = "field"
  /\ ~StructEq(source.tamper.value, Get(saveData, source.tamper.key))
  /\ Accepted(imp.gameData) /\ EntriesPresent(imp.gameData)

\* C2 as stated: after a change of the content of any single snapshot field of
\* an exported envelope (top-level replacement or a nested value), secureImport
\* fails with the integrity-check reason.
C2_TamperDetected ==
  (FieldTampered /\ ~ImportPrimitiveFailed) => ImportFailedWith(IntegrityReason)

\* C3 as stated: a signed envelope whose timestamp is before 2025-01-01 (0 in
\* particular) or after now + 1 day is rejected with the timestamp reason, and a
\* timestamp equal to the current time is not rejected at the timestamp gate.
C3_TimestampBounds ==
  (imp.pc = "done" /\ Truthy(imp.signature) /\ imp.timestamp.t = "number") =>
    /\ (imp.timestamp.v < ReleaseTime \/ imp.timestamp.v > imp.callTime + DayInMs)
         => ImportFailedWith(TimestampReason)
    /\ imp.timestamp.v = imp.callTime => ~ImportFailedWith(TimestampReason)

\* C4: importing an object without a signature field fails with the format
\* reason, whatever its timestamp and its other fields are.
C4_ForeignInput ==
  (imp.pc = "done" /\ importedData.t = "object" /\ ~HasKey(importedData, INTEGRITY_KEY))
    => ImportFailedWith(FormatReason)

C4_Witness ==
  /\ imp.pc = "done"
  /\ importedData.t = "object"
  /\ ~HasKey(importedData, INTEGRITY_KEY)
  /\ HasKey(importedData, TIMESTAMP_KEY)
  /\ Get(importedData, TIMESTAMP_KEY).v > imp.callTime + DayInMs
  /\ Get(importedData, "history").t = "string"
  /\ ImportFailedWith(FormatReason)

\* S is no object, or a field of S is present with a value of the wrong kind
Misshapen(S) ==
  \/ S.t # "object"
  \/ HasKey(S, "unlocked") /\ Get(S, "unlocked").t # "object"
  \/ HasKey(S, "history") /\ Get(S, "history").t # "array"
  \/ HasKey(S, "missions") /\ Get(S, "missions").t # "array"

TimestampInRange ==
  /\ imp.timestamp.t = "number"
  /\ imp.timestamp.v >= ReleaseTime
  /\ imp.timestamp.v <= imp.callTime + DayInMs

\* C5 as stated: the validator rejects every non-object and every candidate with
\* unlocked present but no mapping, history present but no sequence or missions
\* present but no sequence (so the export of such a value fails with the
\* validator's reason), and importing a signed in-range envelope whose history
\* is no sequence fails with the structural reason naming history.
C5_StructuralRejection ==
  /\ (exp.pc # "idle" /\ Misshapen(saveData)) =>
       /\ exp.pc = "done" /\ exp.settled = "resolved"
       /\ ~exp.result.success
       /\ exp.result.error = StructureMessage(validateGameLogic(saveData).reason)
       /\ ~validateGameLogic(saveData).valid
  /\ (/\ imp.pc = "done"
      /\ Truthy(imp.signature)
      /\ TimestampInRange
      /\ HasKey(imp.gameData, "history")
      /\ Get(imp.gameData, "history").t # "array")
       => ImportFailedWith(StructureMessage("history format error"))

\* C6: every secureExport call and every secureImport call settles by resolving,
\* never by rejecting, to success = true with data or to success = false with
\* a message; until then it has no result.
C6_ErrorsAsData ==
  /\ exp.pc = "done" =>
       /\ exp.settled = "resolved"
       /\ \/ exp.result.success /\ "data" \in DOMAIN exp.result
          \/ ~exp.result.success /\ "error" \in DOMAIN exp.result
                                 /\ exp.result.error # <<>>
  /\ exp.pc # "done" => (exp.settled = "pending" /\ exp.result = Undef)
  /\ imp.pc = "done" =>
       /\ imp.settled = "resolved"
       /\ \/ imp.result.success /\ "data" \in DOMAIN imp.result
          \/ ~imp.result.success /\ "reason" \in DOMAIN imp.result
                                 /\ imp.result.reason # <<>>
  /\ imp.pc # "done" => (imp.settled = "pending" /\ imp.result = Undef)

C6_Witness ==
  /\ exp.pc = "done"
  /\ Accepted(saveData)
  /\ ~EntriesPresent(saveData)
  /\ ~exp.result.success

\* the signature recomputed over a candidate, with the key derived from it
Comparable(gameData) ==
  /\ gameData.t = "object"
  /\ validateGameLogic(gameData).valid
  /\ ~DynamicKeySeed(gameData).thrown
Recomputed(gameData) ==
  Signature(NormalizedData(gameData), DerivedKey(DynamicKeySeed(gameData).value))
Mismatching ==
  /\ imp.pc = "done"
  /\ Truthy(imp.signature)
  /\ Comparable(imp.gameData)
  /\ imp.signature # Recomputed(imp.gameData)

AcceptedIsVerified ==
  ImportSucceeded =>
    /\ imp.gameData = RestOf(importedData)
    /\ Comparable(imp.gameData)
    /\ imp.signature = Recomputed(imp.gameData)
    /\ imp.result.data = imp.gameData
    /\ imp.result.info.verified

\* C7 as stated: success implies that the signature equals the recomputed one,
\* that the candidate is valid and that it is the data returned; and a
\* mismatching signature always yields the integrity-check failure.
C7_AsClaimed ==
  /\ AcceptedIsVerified
  /\ Mismatching => ImportFailedWith(IntegrityReason)

\* C7, amended: success implies that the signature equals the recomputed one,
\* that the candidate is valid and that it is the data returned; a mismatching
\* signature never yields success, and it yields the integrity-check failure
\* whenever the call gets as far as comparing the signatures.
C7_AcceptanceImpliesVerification ==
  /\ AcceptedIsVerified
  /\ Mismatching =>
       /\ ~ImportSucceeded
       /\ imp.expectedSignature # Undef => ImportFailedWith(IntegrityReason)

C7_Witness ==
  /\ Mismatching
  /\ source.from = "export"
  /\ source.tamper.kind = "signature"
  /\ imp.expectedSignature # Undef
  /\ ImportFailedWith(IntegrityReason)

\* the names the claims speak of, read off a snapshot without sorting or joining
UnlockedNameSet(S) ==
  IF HasKey(S, "unlocked") THEN Range(ObjectKeys(Get(S, "unlocked"))) ELSE {}
MissionsOf(S) == IF HasKey(S, "missions") THEN Get(S, "missions").v ELSE <<>>
DoneAt(S, i) == Get(MissionsOf(S)[i], "done") = Bool(TRUE)
DoneNameSet(S) ==
  {Get(MissionsOf(S)[i], "name").v : i \in {j \in 1..Len(MissionsOf(S)) : DoneAt(S, j)}}
DoneNameBag(S) ==
  [n \in Names |->
     Cardinality({i \in 1..Len(MissionsOf(S)) :
                    DoneAt(S, i) /\ Get(MissionsOf(S)[i], "name").v = n})]

\* C8 as stated: two snapshots whose sets of unlocked names differ, or whose
\* sets of names of done missions differ, have different fingerprints and
\* different derived keys.
C8_KeySensitivity ==
  (/\ pair.pc = "done"
   /\ \/ UnlockedNameSet(pair.s1) # UnlockedNameSet(pair.s2)
      \/ DoneNameSet(pair.s1) # DoneNameSet(pair.s2))
    => (pair.seed1 # pair.seed2 /\ pair.key1 # pair.key2)

SameGameplay ==
  /\ UnlockedNameSet(pair.s1) = UnlockedNameSet(pair.s2)
  /\ DoneNameBag(pair.s1) = DoneNameBag(pair.s2)
  /\ Get(pair.s1, "version") = Get(pair.s2, "version")

\* C9: two snapshots with the same set of unlocked names, the same names of
\* done missions (each as often) and the same version get the same key,
\* whatever the order of their unlocked entries and missions, their display
\* data, their history and their missions that are not done.
C9_KeyIndependence ==
  (pair.pc = "done" /\ SameGameplay) => pair.key1 = pair.key2

C9_Witness ==
  /\ pair.pc = "done"
  /\ SameGameplay
  /\ Len(UnlockedKeys(pair.s1)) = 2
  /\ UnlockedKeys(pair.s1) # UnlockedKeys(pair.s2)
  /\ Len(DoneMissionNames(pair.s1)) = 2
  /\ DoneMissionNames(pair.s1) # DoneMissionNames(pair.s2)
  /\ Get(pair.s1, "history") # Get(pair.s2, "history")
  /\ pair.key1 = pair.key2

\* an exported envelope was imported with its top-level keys in another order
ImportedReordered == source.from = "export" /\ source.tamper.kind = "reorder"

\* C10: a snapshot and the same snapshot with its top-level keys in another
\* insertion order have the same signing input and, with the same key, the same
\* signature, so the reordered envelope of an export is imported with success
\* (unless a hash or HMAC primitive fails during the import).
C10_InsertionOrderIndependent ==
  /\ (ImportedReordered /\ imp.normalizedData # Undef) =>
       /\ imp.normalizedData = exp.normalizedData
       /\ imp.expectedKey = exp.dynamicKey
  /\ (ImportedReordered /\ imp.pc = "done") =>
       \/ ImportPrimitiveFailed
       \/ /\ ImportSucceeded
          /\ imp.expectedSignature = Get(exp.result.data, INTEGRITY_KEY)
          /\ StructEq(imp.result.data, saveData)

C10_Witness ==
  /\ ImportedReordered
  /\ ImportSucceeded
  /\ Len(ObjectKeys(saveData)) = 4
  /\ ObjectKeys(imp.gameData) # ObjectKeys(saveData)

\* C11: no step of a secureImport call changes the envelope passed in, whatever
\* gate the call fails at, and no step of a secureExport call changes the
\* caller's snapshot: the reserved keys of a successful export are in the
\* returned envelope and not in the snapshot.
C11_NoMutation ==
  [][/\ imp' # imp => importedData' = importedData
     /\ exp' # exp =>
          /\ saveData' = saveData
          /\ (exp'.pc = "done" /\ exp'.settled = "resolved" /\ exp'.result.success) =>
               \A k \in ReservedKeys :
                 HasKey(exp'.result.data, k) /\ ~HasKey(saveData', k)]_vars
\* an exported envelope was refused at the signature gate and still has its keys
C11_Witness ==
  /\ ImportFailedWith(IntegrityReason)
  /\ source.from = "export"
  /\ \A k \in ReservedKeys : HasKey(importedData, k)
  /\ ExportSucceeded

\* C12: whatever the interleaving of two calls on one instance at their
\* awaits, a call that has returned returned what it returns when it runs
\* alone with the same argument, the same clock readings and the same
\* outcome of the primitives.
C12_CallsIndependent ==
  \A i \in CallIds :
    calls[i].pc = "done" =>
      [settled |-> calls[i].settled, result |-> calls[i].result]
        = RunAlone(calls[i].kind, calls[i].input, calls[i].callTime,
                   calls[i].clock, calls[i].fault)
\* an export and an import, each suspended while the other ran, both succeeded
C12_Witness ==
  /\ calls # <<>>
  /\ {calls[1].kind, calls[2].kind} = {"export", "import"}
  /\ \A i \in CallIds :
       /\ calls[i].pc = "done" /\ calls[i].settled = "resolved"
       /\ calls[i].result.success
       /\ calls[i].overlapped

\* a handler call was made in this step and it ran combine
CombineRan == eng'.calls # eng.calls /\ eng'.last.combined
Done(m) == Truthy(Get(m, "done"))

\* C13: in every combine, the missions list as the loop leaves it has the same
\* missions in the same places, every mission that was done is still done and
\* every mission named as the result is done; unless regenMissions() is then
\* called (all missions done), that list is the missions list after the call.
C13_MissionsMonotonic ==
  [][CombineRan =>
       LET before == Get(saveData, "missions").v
           marked == eng'.last.marked.v
       IN /\ Len(marked) = Len(before)
          /\ \A i \in 1..Len(before) :
               /\ Get(marked[i], "name") = Get(before[i], "name")
               /\ Done(before[i]) => Done(marked[i])
               /\ Get(before[i], "name") = Get(eng'.last.res, "name") => Done(marked[i])
          /\ ~eng'.last.regen => Get(saveData', "missions") = eng'.last.marked]_vars
\* the second call ran combine on a list that stayed: a mission named as the
\* result is done, another is still not
C13_Witness ==
  /\ eng.calls = 2 /\ eng.last.combined /\ ~eng.last.regen
  /\ \E i, j \in 1..Len(Get(saveData, "missions").v) :
       /\ Get(Get(saveData, "missions").v[i], "name") = Get(eng.last.res, "name")
       /\ Done(Get(saveData, "missions").v[i])
       /\ ~Done(Get(saveData, "missions").v[j])

\* the defects of the envelope that was imported, gate by gate
SignatureMissing == ~Truthy(imp.signature)
TimestampOutOfRange ==
  /\ imp.timestamp.t = "number"
  /\ imp.timestamp.v < ReleaseTime \/ imp.timestamp.v > imp.callTime + DayInMs
FieldWronglyTyped == Misshapen(imp.gameData)
SignatureWrong ==
  imp.signature # Signature(NormalizedData(imp.gameData),
                            DerivedKey(Features(imp.gameData)))
ImportFailedStructure ==
  /\ imp.pc = "done" /\ imp.settled = "resolved" /\ ~imp.result.success
  /\ imp.result.reason[1] = "save structure error: "

\* C14 as stated: the reason secureImport returns is that of the first of the
\* gates presence, timestamp range, structure, signature that the envelope
\* fails: an envelope with a signature, an out-of-range timestamp and a wrongly
\* typed field fails with the timestamp reason, and one with an in-range
\* timestamp, a wrongly typed field and a wrong signature fails with the
\* structural reason.
C14_GateOrder ==
  (imp.pc = "done" /\ importedData.t = "object") =>
    /\ SignatureMissing => ImportFailedWith(FormatReason)
    /\ (~SignatureMissing /\ TimestampOutOfRange) => ImportFailedWith(TimestampReason)
    /\ (~SignatureMissing /\ ~TimestampOutOfRange /\ FieldWronglyTyped)
         => ImportFailedStructure
    /\ (/\ ~SignatureMissing /\ ~TimestampOutOfRange /\ ~FieldWronglyTyped
        /\ EntriesPresent(imp.gameData) /\ ~ImportPrimitiveFailed
        /\ SignatureWrong)
         => ImportFailedWith(IntegrityReason)

\* the number of entries of a field of S: 0 when it is absent or holds no
\* collection
EntryCount(S, k) ==
  IF HasKey(S, k) /\ Get(S, k).t \in {"object", "array"} THEN Len(Get(S, k).v) ELSE 0

\* C15: when a secureExport call returns, it resolved; if validateGameLogic
\* rejects the snapshot S the result is a failure with the validator's reason
\* and no envelope; if the result is a success, the envelope holds the fields
\* of S in the order and with the values of S, then exactly the three reserved
\* keys: a signature, the clock reading of the step that built the envelope
\* and '1.0'; the counts are the numbers of entries of unlocked, history and
\* missions.
C15_ExportResult ==
  [][(exp.pc # "done" /\ exp'.pc = "done") =>
       /\ exp'.settled = "resolved"
       /\ ~validateGameLogic(saveData).valid =>
            /\ ~exp'.result.success
            /\ DOMAIN exp'.result = {"success", "error"}
            /\ exp'.result.error = StructureMessage(validateGameLogic(saveData).reason)
       /\ exp'.result.success =>
            /\ validateGameLogic(saveData).valid
            /\ WithoutKeys(exp'.result.data, ReservedKeys) = saveData
            /\ Len(ObjectKeys(exp'.result.data)) = Len(ObjectKeys(saveData)) + 3
            /\ Range(ObjectKeys(exp'.result.data))
                 = Range(ObjectKeys(saveData)) \cup ReservedKeys
            /\ Get(exp'.result.data, INTEGRITY_KEY).t = "mac"
            /\ Get(exp'.result.data, TIMESTAMP_KEY) = Num(now)
            /\ Get(exp'.result.data, VERSION_KEY) = Str("1.0")
            /\ exp'.result.info = [elements |-> EntryCount(saveData, "unlocked"),
                                   history |-> EntryCount(saveData, "history"),
                                   missions |-> EntryCount(saveData, "missions")]]_vars
\* a snapshot with all four fields was exported on the second day, and a day
\* has passed since
C15_Witness ==
  /\ ExportSucceeded
  /\ \A k \in SnapshotKeys : HasKey(saveData, k)
  /\ exp.result.info.elements = 2 /\ exp.result.info.history = 1
  /\ Get(exp.result.data, TIMESTAMP_KEY) = Num(ReleaseTime + DayInMs)
  /\ now = ReleaseTime + 2 * DayInMs

Absent(S) == {k \in SnapshotKeys : ~HasKey(S, k)}

\* C16: an object whose fields unlocked, history, missions and version are of
\* the right kind or absent, some of them absent, is accepted by
\* validateGameLogic, and unless a hash or HMAC primitive fails its export
\* succeeds: the absent fields are absent from the envelope and the count of
\* every absent collection is 0.
C16_AbsentFieldsAccepted ==
  (saveData.t = "object" /\ ~Misshapen(saveData) /\ Absent(saveData) # {}) =>
    /\ validateGameLogic(saveData).valid
    /\ (exp.pc = "done" /\ ~ExportPrimitiveFailed) =>
         /\ ExportSucceeded
         /\ \A k \in Absent(saveData) : ~HasKey(exp.result.data, k)
         /\ ~HasKey(saveData, "unlocked") => exp.result.info.elements = 0
         /\ ~HasKey(saveData, "history") => exp.result.info.history = 0
         /\ ~HasKey(saveData, "missions") => exp.result.info.missions = 0
\* the object without any field was exported
C16_Witness ==
  /\ ExportSucceeded
  /\ Absent(saveData) = SnapshotKeys
  /\ exp.result.info = [elements |-> 0, history |-> 0, missions |-> 0]
  /\ Range(ObjectKeys(exp.result.data)) = ReservedKeys

\* C17 as stated: when combine handlers have changed the game state while its
\* export was suspended at an await, the envelope that the export returned is
\* not refused at the signature gate of secureImport.
C17_ExportConsistentUnderGameplay ==
  (imp.pc = "done" /\ source.from = "export" /\ eng.calls > 0)
    => ~ImportFailedWith(IntegrityReason)

\* C18: the history, at most 35 entries long when the engine is constructed,
\* is at most 35 entries long after every step; every combine appends one
\* entry { a, b, res } at the end, and when that makes 36 entries the first 10
\* are removed and the other 26 stay in their order.
C18_HistoryBounded ==
  [][/\ Len(Get(saveData', "history").v) <= HistoryLimit
     /\ CombineRan =>
          LET before == Get(saveData, "history").v
              grown == Append(before, eng'.last.entry)
              after == Get(saveData', "history").v
          IN /\ eng'.last.entry = Obj(<<<<"a", eng'.last.a>>, <<"b", eng'.last.b>>,
                                        <<"res", eng'.last.res>>>>)
             /\ Len(before) < HistoryLimit => after = grown
             /\ Len(before) = HistoryLimit =>
                  /\ Len(after) = HistoryLimit + 1 - HistoryCut
                  /\ \A i \in 1..Len(after) : after[i] = grown[i + HistoryCut]]_vars
\* a combine on a history of 35 entries left 26, the new entry last; the next
\* combine appended one more
C18_Witness ==
  /\ eng.calls = 2 /\ eng.last.combined
  /\ Len(Get(saveData, "history").v) = HistoryLimit + 2 - HistoryCut
  /\ Get(saveData, "history").v[HistoryLimit + 2 - HistoryCut] = eng.last.entry
  /\ Get(saveData, "history").v[1] = FillerEntry(HistoryCut + 1)

\* a handleDrop call was made in this step
DropRan == eng'.calls # eng.calls /\ eng'.last.op = "handleDrop"
\* the drop did not parse, or what it parsed to has no string name or no
\* array emoji
DropUnusable(parsed) ==
  \/ ~parsed.ok
  \/ parsed.val.t # "object"
  \/ Get(parsed.val, "name").t # "string"
  \/ Get(parsed.val, "emoji").t # "array"

\* C19: after every step pending holds at most one item; a handleDrop whose
\* drop is unusable returns false and leaves pending and the game state as
\* they were; a usable drop returns true and, when no drop was pending, is
\* kept in pending without a combine, and when one was pending, one combine
\* runs on the pending drop and the new one, in this order, its entry is the
\* last of the history and pending is empty.
C19_PendingPairsUp ==
  [][/\ Len(pending') <= 1
     /\ DropRan =>
          LET parsed == eng'.last.parsed
          IN IF DropUnusable(parsed)
               THEN /\ ~eng'.last.returned /\ ~eng'.last.combined
                    /\ pending' = pending /\ saveData' = saveData
             ELSE IF pending = <<>>
               THEN /\ eng'.last.returned /\ ~eng'.last.combined
                    /\ pending' = <<parsed.val>> /\ saveData' = saveData
             ELSE /\ eng'.last.returned /\ eng'.last.combined
                  /\ eng'.last.a = pending[1] /\ eng'.last.b = parsed.val
                  /\ eng'.last.entry.v[1][2] = pending[1]
                  /\ eng'.last.entry.v[2][2] = parsed.val
                  /\ Get(saveData', "history").v[Len(Get(saveData', "history").v)]
                       = eng'.last.entry
                  /\ pending' = <<>>]_vars
\* a was dropped, then b: the second drop ran combine(a, b)
C19_Witness ==
  /\ eng.calls = 2 /\ eng.last.op = "handleDrop"
  /\ eng.last.returned /\ eng.last.combined
  /\ eng.last.a = Entity("a") /\ eng.last.b = Entity("b")
  /\ pending = <<>>

\* every entry of the object before is in the object after, with its value
Kept(before, after) ==
  \A k \in Range(ObjectKeys(before)) : HasKey(after, k) /\ Get(after, k) = Get(before, k)

\* C20: no step changes or removes an entry of known or of unlocked; every
\* combine of a and b uses the key that b and a give too, returns the result
\* recorded under that key if there is one, whatever the seed map and the
\* name generator say, and leaves its result recorded under that key and its
\* result's name unlocked.
C20_RecipesStable ==
  [][/\ Kept(Get(saveData, "known"), Get(saveData', "known"))
     /\ Kept(Get(saveData, "unlocked"), Get(saveData', "unlocked"))
     /\ CombineRan =>
          LET a == Get(eng'.last.a, "name").v
              b == Get(eng'.last.b, "name").v
              res == eng'.last.res
          IN /\ eng'.last.key = normPair(a, b)
             /\ eng'.last.key = normPair(b, a)
             /\ HasKey(Get(saveData, "known"), normPair(b, a)) =>
                  res = Get(Get(saveData, "known"), normPair(b, a))
             /\ Get(Get(saveData', "known"), normPair(b, a)) = res
             /\ HasKey(Get(saveData', "unlocked"), Get(res, "name").v)]_vars
\* combine(a, b) then combine(b, a) gave the same seeded result, whose name
\* was unlocked before with another emoji and still has it
C20_Witness ==
  /\ eng.calls = 2 /\ eng.last.combined
  /\ Len(Get(saveData, "history").v) = 2
  /\ Get(saveData, "history").v[1]
       = Obj(<<<<"a", Entity("a")>>, <<"b", Entity("b")>>, <<"res", eng.last.res>>>>)
  /\ Get(saveData, "history").v[2]
       = Obj(<<<<"a", Entity("b")>>, <<"b", Entity("a")>>, <<"res", eng.last.res>>>>)
  /\ eng.last.res = Obj(<<<<"name", Str("a,b")>>, <<"emoji", Emoji2>>>>)
  /\ Get(Get(saveData, "unlocked"), "a,b") = Emoji1
====
